---- MODULE Spec2Model ----
(***************************************************************************)
(* Model of the chess repository's bitboard core: the build script that    *)
(* populates the move lookup tables (src/build.rs, src/tables/*.rs), the   *)
(* bitscan utility, and the FEN decoder (src/board/fen.rs).                *)
(*                                                                         *)
(* A u64 bitboard is modelled as the set of its set bit indices (a subset  *)
(* of 0..63): bit i of the word is set iff i is in the set.  Shifts drop   *)
(* the bits that leave the 64-bit word.  A u8 of the first-rank            *)
(* computation is an integer in 0..255 with arithmetic modulo 2^8.         *)
(***************************************************************************)
EXTENDS Integers, Sequences, FiniteSets, TLC

VARIABLES
    pc,                     \* position of the build script's main()
    square,                 \* loop counter of the populate_* pass in progress
    KING_MOVES,             \* static mut KING_MOVES: [u64; 64]
    KNIGHT_MOVES,           \* static mut KNIGHT_MOVES: [u64; 64]
    PAWN_QUIET_MOVES,       \* static mut PAWN_QUIET_MOVES: [[u64; 64]; 2]
    PAWN_ATTACKING_MOVES,   \* static mut PAWN_ATTACKING_MOVES: [[u64; 64]; 2]
    FIRST_RANK_MOVES,       \* static mut FIRST_RANK_MOVES: [[u8; 256]; 8]
    scan_i,                 \* the u64 operand handed to the bitscan functions
    scan_fwd,               \* what bitscan_forward(scan_i) returned
    scan_rev,               \* what bitscan_reverse(scan_i) returned
    placement,              \* the piece-placement field handed to the decoder
    overflow_checks,        \* build profile: overflow checks on (dev/test) or off (release)
    parsed,                 \* what parse_piece_placement(placement) returned
    rights_token,           \* the castling-rights token handed to parse_castling_rights
    rights,                 \* what parse_castling_rights(rights_token) returned
    fen,                    \* the FEN string handed to parse_fen
    fen_result              \* what parse_fen(fen) returned, or how it aborted

buildVars == <<pc, square, KING_MOVES, KNIGHT_MOVES, PAWN_QUIET_MOVES,
               PAWN_ATTACKING_MOVES, FIRST_RANK_MOVES>>
scanVars == <<scan_i, scan_fwd, scan_rev>>
fenVars == <<placement, overflow_checks, parsed>>
castleVars == <<rights_token, rights>>
parseVars == <<fen, fen_result>>
vars == <<buildVars, scanVars, fenVars, castleVars, parseVars>>

\* a function that has not been called yet has returned nothing
NotCalled == [tag |-> "NotCalled"]

----------------------------------------------------------------------------
(* 64-bit words as sets of bit indices *)

Squares == 0 .. 63

Bit(i) == {i}                                   \* 1u64 << i, for i in 0..63
Shl(bb, k) == {i + k : i \in bb} \cap Squares   \* bb << k on u64
Shr(bb, k) == {i - k : i \in bb} \cap Squares   \* bb >> k on u64
Not64(bb) == Squares \ bb                       \* !bb on u64

FileOf(s) == s % 8
RankOf(s) == s \div 8
Abs(n) == IF n < 0 THEN -n ELSE n

\* enum Color { White, Black }, enum File { A .. H }, enum Rank { One .. Eight }
White == 0
Black == 1
Colors == {White, Black}
FileA == 0
FileB == 1
FileG == 6
FileH == 7
RankTwo == 1
RankSeven == 6

\* RANK_MASKS[r] = 0xFF << 8r, FILE_MASKS[f] = 0x0101010101010101 << f
RANK_MASKS == [r \in 0 .. 7 |-> {8 * r + f : f \in 0 .. 7}]
FILE_MASKS == [f \in 0 .. 7 |-> {8 * r + f : r \in 0 .. 7}]

----------------------------------------------------------------------------
(* Leaper tables *)

compute_king_moves(sq) ==
    LET bb == Bit(sq)
        n  == Shl(bb, 8)
        s  == Shr(bb, 8)
        nw == Shl(bb \cap FILE_MASKS[FileA], 7)
        w  == Shr(bb \cap FILE_MASKS[FileA], 1)
        sw == Shr(bb \cap FILE_MASKS[FileA], 9)
        ne == Shl(bb \cap FILE_MASKS[FileH], 9)
        e  == Shl(bb \cap FILE_MASKS[FileH], 1)
        se == Shr(bb \cap FILE_MASKS[FileH], 7)
    IN  n \cup s \cup nw \cup w \cup sw \cup ne \cup e \cup se

compute_knight_moves_unmasked(sq) ==
    LET bb == Bit(sq)
    IN  Shl(bb, 15) \cup Shr(bb, 17) \cup Shl(bb, 6) \cup Shr(bb, 10)
        \cup Shl(bb, 17) \cup Shr(bb, 15) \cup Shl(bb, 10) \cup Shr(bb, 6)

compute_knight_moves(sq) ==
    LET bb == Bit(sq)
        notA  == Not64(FILE_MASKS[FileA])
        notAB == Not64(FILE_MASKS[FileA] \cup FILE_MASKS[FileB])
        notH  == Not64(FILE_MASKS[FileH])
        notHG == Not64(FILE_MASKS[FileH] \cup FILE_MASKS[FileG])
        s1 == Shl(bb \cap notA, 15)
        s2 == Shr(bb \cap notA, 17)
        s3 == Shl(bb \cap notAB, 6)
        s4 == Shr(bb \cap notAB, 10)
        s5 == Shl(bb \cap notH, 17)
        s6 == Shr(bb \cap notH, 15)
        s7 == Shl(bb \cap notHG, 10)
        s8 == Shr(bb \cap notHG, 6)
    IN  s1 \cup s2 \cup s3 \cup s4 \cup s5 \cup s6 \cup s7 \cup s8

compute_pawn_quiet_moves_any_rank(sq, color) ==
    LET bb == Bit(sq)
    IN  IF color = White
        THEN Shl(bb, 8) \cup Shl(bb, 16)
        ELSE Shr(bb, 8) \cup Shr(bb, 16)

compute_pawn_quiet_moves(sq, color) ==
    LET bb == Bit(sq)
        s1 == IF color = White THEN Shl(bb, 8) ELSE Shr(bb, 8)
        s2 == IF color = White
              THEN Shl(bb \cap RANK_MASKS[RankTwo], 16)
              ELSE Shr(bb \cap RANK_MASKS[RankSeven], 16)
    IN  s1 \cup s2

compute_pawn_attacking_moves_unmasked(sq, color) ==
    LET bb == Bit(sq)
    IN  IF color = White
        THEN Shl(bb, 7) \cup Shl(bb, 9)
        ELSE Shr(bb, 9) \cup Shr(bb, 7)

compute_pawn_attacking_moves(sq, color) ==
    LET bb == Bit(sq)
        notA == Not64(FILE_MASKS[FileA])
        notH == Not64(FILE_MASKS[FileH])
        s1 == IF color = White THEN Shl(bb \cap notA, 7) ELSE Shr(bb \cap notA, 9)
        s2 == IF color = White THEN Shl(bb \cap notH, 9) ELSE Shr(bb \cap notH, 7)
    IN  s1 \cup s2

----------------------------------------------------------------------------
(* Bitscan *)

\* u64::trailing_zeros: the number of zero bits below the lowest set bit, 64 for 0
RECURSIVE CountZerosUp(_, _)
CountZerosUp(x, i) ==
    IF i > 63 \/ i \in x THEN 0 ELSE 1 + CountZerosUp(x, i + 1)
trailing_zeros(x) == CountZerosUp(x, 0)

\* u64::leading_zeros: the number of zero bits above the highest set bit, 64 for 0
RECURSIVE CountZerosDown(_, _)
CountZerosDown(x, i) ==
    IF i < 0 \/ i \in x THEN 0 ELSE 1 + CountZerosDown(x, i - 1)
leading_zeros(x) == CountZerosDown(x, 63)

\* Result<u8, BitscanError>
BitscanOk(v) == [tag |-> "Ok", val |-> v]
InvalidInteger(i) == [tag |-> "Err", err |-> "InvalidInteger", integer |-> i]

bitscan_forward_unchecked(i) == BitscanOk(trailing_zeros(i) % 256)

bitscan_forward(i) ==
    IF i # {} THEN BitscanOk(trailing_zeros(i) % 256) ELSE InvalidInteger(i)

bitscan_reverse_from_top(i) ==
    IF i # {} THEN BitscanOk(leading_zeros(i) % 256) ELSE InvalidInteger(i)

bitscan_reverse(i) ==
    IF i # {} THEN BitscanOk(63 - (leading_zeros(i) % 256)) ELSE InvalidInteger(i)

----------------------------------------------------------------------------
(* First-rank sliding table: u8 arithmetic *)

Pow2(n) == 2 ^ n
U8 == 0 .. 255
Bits8(x) == {i \in 0 .. 7 : (x \div Pow2(i)) % 2 = 1}    \* x as u64, x a u8
RECURSIVE Val8(_)
Val8(S) == IF S = {} THEN 0
           ELSE LET i == CHOOSE j \in S : TRUE IN Pow2(i) + Val8(S \ {i})
And8(a, b) == Val8(Bits8(a) \cap Bits8(b))
Xor8(a, b) == Val8((Bits8(a) \cup Bits8(b)) \ (Bits8(a) \cap Bits8(b)))
Not8(a) == 255 - a
Sub8(a, b) == (a - b + 256) % 256
Shl8(a, k) == (a * Pow2(k)) % 256       \* a << k on u8, k <= 7

left_ray(x) == Sub8(x, 1)
right_ray(x) == And8(Not8(x), Not8(Sub8(x, 1)))

compute_first_rank_moves_far_blocker(sq, occupancy) ==
    LET left0 == left_ray(Shl8(1, sq))
        left_blockers == And8(left0, occupancy)
        left_attacks ==
            IF left_blockers > 0
            THEN Xor8(left0, left_ray(Shl8(1, bitscan_forward(Bits8(left_blockers)).val)))
            ELSE left0
        right0 == right_ray(Shl8(1, sq))
        right_blockers == And8(right0, occupancy)
        right_attacks ==
            IF right_blockers > 0
            THEN Xor8(right0, right_ray(Shl8(1, bitscan_forward(Bits8(right_blockers)).val)))
            ELSE right0
    IN  Xor8(left_attacks, right_attacks)

compute_first_rank_moves(sq, occupancy) ==
    LET left0 == left_ray(Shl8(1, sq))
        left_blockers == And8(left0, occupancy)
        left_attacks ==
            IF left_blockers > 0
            THEN Xor8(left0, left_ray(Shl8(1, bitscan_reverse(Bits8(left_blockers)).val)))
            ELSE left0
        right0 == right_ray(Shl8(1, sq))
        right_blockers == And8(right0, occupancy)
        right_attacks ==
            IF right_blockers > 0
            THEN Xor8(right0, right_ray(Shl8(1, bitscan_forward(Bits8(right_blockers)).val)))
            ELSE right0
    IN  Xor8(left_attacks, right_attacks)

\* The operands compute_first_rank_moves(sq, occupancy) hands to its
\* primitive operations, in exact (unbounded) integers: shifts holds every n
\* of a `1 << n`, subs every x of an `x - 1`, scans every operand of a bitscan
\* call, values every shift result, difference and the returned value.  A
\* side's bitscan, shift and subtraction happen only inside `if blockers > 0`.
first_rank_ops_unguarded(sq, occupancy) ==
    LET x == Pow2(sq)
        left_blockers == And8(left_ray(x), occupancy)
        right_blockers == And8(right_ray(x), occupancy)
        leftn == IF left_blockers # 0 THEN {bitscan_reverse(Bits8(left_blockers)).val} ELSE {}
        rightn == IF right_blockers # 0 THEN {bitscan_forward(Bits8(right_blockers)).val} ELSE {}
        shifts == {sq} \cup leftn \cup rightn
        subs == {Pow2(n) : n \in shifts}
    IN  [shifts |-> shifts,
         subs |-> subs,
         scans |-> {left_blockers, right_blockers},
         values |-> subs \cup {v - 1 : v \in subs} \cup {compute_first_rank_moves(sq, occupancy)}]

first_rank_ops(sq, occupancy) ==
    LET x == Pow2(sq)
        left_blockers == And8(left_ray(x), occupancy)
        right_blockers == And8(right_ray(x), occupancy)
        leftn == IF left_blockers > 0 THEN {bitscan_reverse(Bits8(left_blockers)).val} ELSE {}
        rightn == IF right_blockers > 0 THEN {bitscan_forward(Bits8(right_blockers)).val} ELSE {}
        shifts == {sq} \cup leftn \cup rightn
        subs == {Pow2(n) : n \in shifts}
    IN  [shifts |-> shifts,
         subs |-> subs,
         scans |-> (IF left_blockers > 0 THEN {left_blockers} ELSE {})
                   \cup (IF right_blockers > 0 THEN {right_blockers} ELSE {}),
         values |-> subs \cup {v - 1 : v \in subs} \cup {compute_first_rank_moves(sq, occupancy)}]

\* unwrap of a bitscan of 0 aborts in every build; an underflowing `x - 1` or
\* an oversized shift aborts when overflow checks are on
first_rank_aborts(sq, occupancy, checks) ==
    LET ops == first_rank_ops(sq, occupancy)
    IN  \/ 0 \in ops.scans
        \/ checks /\ \E x \in ops.subs : x < 1
        \/ checks /\ \E n \in ops.shifts : n > 7

----------------------------------------------------------------------------
(* The build script: main() of src/build.rs *)

BuildStart ==
    /\ pc = "populate_king_moves"
    /\ square = 0
    /\ KING_MOVES = [s \in Squares |-> {}]
    /\ KNIGHT_MOVES = [s \in Squares |-> {}]
    /\ PAWN_QUIET_MOVES = [c \in Colors |-> [s \in Squares |-> {}]]
    /\ PAWN_ATTACKING_MOVES = [c \in Colors |-> [s \in Squares |-> {}]]
    /\ FIRST_RANK_MOVES = [s \in 0 .. 7 |-> [o \in U8 |-> 0]]

ScanIdle == scan_i = {} /\ scan_fwd = NotCalled /\ scan_rev = NotCalled
FenIdle == placement = <<>> /\ overflow_checks = FALSE /\ parsed = NotCalled
CastleIdle == rights_token = <<>> /\ rights = NotCalled
ParseIdle == fen = <<>> /\ fen_result = NotCalled

InitBuild == BuildStart /\ ScanIdle /\ CastleIdle /\ ParseIdle
             /\ placement = <<>> /\ parsed = NotCalled
             /\ overflow_checks \in BOOLEAN

\* one iteration of `for square in 0u8..=63` of populate_king_moves
populate_king_moves ==
    /\ pc = "populate_king_moves"
    /\ KING_MOVES' = [KING_MOVES EXCEPT ![square] = compute_king_moves(square)]
    /\ IF square < 63
       THEN square' = square + 1 /\ pc' = pc
       ELSE square' = 0 /\ pc' = "populate_knight_moves"
    /\ UNCHANGED <<KNIGHT_MOVES, PAWN_QUIET_MOVES, PAWN_ATTACKING_MOVES, FIRST_RANK_MOVES,
                   scanVars, fenVars, castleVars, parseVars>>

\* one iteration of `for square in 0u8..=63` of populate_knight_moves
populate_knight_moves ==
    /\ pc = "populate_knight_moves"
    /\ KNIGHT_MOVES' = [KNIGHT_MOVES EXCEPT ![square] = compute_knight_moves(square)]
    /\ IF square < 63
       THEN square' = square + 1 /\ pc' = pc
       ELSE square' = 0 /\ pc' = "populate_pawn_moves"
    /\ UNCHANGED <<KING_MOVES, PAWN_QUIET_MOVES, PAWN_ATTACKING_MOVES, FIRST_RANK_MOVES,
                   scanVars, fenVars, castleVars, parseVars>>

\* one iteration of `for square in 0u8..=63` of populate_pawn_moves
populate_pawn_moves ==
    /\ pc = "populate_pawn_moves"
    /\ PAWN_QUIET_MOVES' =
           [c \in Colors |-> [PAWN_QUIET_MOVES[c] EXCEPT
                                 ![square] = compute_pawn_quiet_moves(square, c)]]
    /\ PAWN_ATTACKING_MOVES' =
           [c \in Colors |-> [PAWN_ATTACKING_MOVES[c] EXCEPT
                                 ![square] = compute_pawn_attacking_moves(square, c)]]
    /\ IF square < 63
       THEN square' = square + 1 /\ pc' = pc
       ELSE square' = 0 /\ pc' = "populate_first_rank_moves"
    /\ UNCHANGED <<KING_MOVES, KNIGHT_MOVES, FIRST_RANK_MOVES, scanVars, fenVars, castleVars, parseVars>>

\* the first-rank pass cut short after its first square
populate_first_rank_moves_one_square ==
    /\ pc = "populate_first_rank_moves"
    /\ FIRST_RANK_MOVES' =
           [FIRST_RANK_MOVES EXCEPT
               ![square] = [o \in U8 |-> compute_first_rank_moves(square, o)]]
    /\ square' = 0 /\ pc' = "create_file"
    /\ UNCHANGED <<KING_MOVES, KNIGHT_MOVES, PAWN_QUIET_MOVES, PAWN_ATTACKING_MOVES,
                   scanVars, fenVars, castleVars, parseVars>>

\* one iteration of `for square in 0u8..8` of populate_first_rank_moves,
\* with its whole inner loop `for occupancy in 0u8..=255`; an abort inside
\* compute_first_rank_moves aborts the build script
populate_first_rank_moves ==
    /\ pc = "populate_first_rank_moves"
    /\ IF \E o \in U8 : first_rank_aborts(square, o, overflow_checks)
       THEN pc' = "panicked" /\ UNCHANGED <<square, FIRST_RANK_MOVES>>
       ELSE /\ FIRST_RANK_MOVES' =
                   [FIRST_RANK_MOVES EXCEPT
                       ![square] = [o \in U8 |-> compute_first_rank_moves(square, o)]]
            /\ IF square < 7
               THEN square' = square + 1 /\ pc' = pc
               ELSE square' = 0 /\ pc' = "create_file"
    /\ UNCHANGED <<KING_MOVES, KNIGHT_MOVES, PAWN_QUIET_MOVES, PAWN_ATTACKING_MOVES,
                   scanVars, fenVars, castleVars, parseVars>>

\* env::var("OUT_DIR").unwrap() and File::create(&dest_path).unwrap():
\* either may fail, and unwrap then aborts the build script
create_file ==
    /\ pc = "create_file"
    /\ \E created \in BOOLEAN :
           pc' = IF created THEN "write_king_moves" ELSE "panicked"
    /\ UNCHANGED <<square, KING_MOVES, KNIGHT_MOVES, PAWN_QUIET_MOVES,
                   PAWN_ATTACKING_MOVES, FIRST_RANK_MOVES, scanVars, fenVars, castleVars, parseVars>>

\* write_king_moves is todo!(): the call aborts the build script
write_king_moves ==
    /\ pc = "write_king_moves"
    /\ pc' = "panicked"
    /\ UNCHANGED <<square, KING_MOVES, KNIGHT_MOVES, PAWN_QUIET_MOVES,
                   PAWN_ATTACKING_MOVES, FIRST_RANK_MOVES, scanVars, fenVars, castleVars, parseVars>>

NextBuild ==
    \/ populate_king_moves
    \/ populate_knight_moves
    \/ populate_pawn_moves
    \/ populate_first_rank_moves
    \/ create_file
    \/ write_king_moves

SpecBuild == InitBuild /\ [][NextBuild]_vars

----------------------------------------------------------------------------
(* Calls of the bitscan functions on 64-bit operands *)

MaxSetBits == 2

RECURSIVE SparseWords(_)
SparseWords(n) ==
    IF n = 0 THEN {{}}
    ELSE LET W == SparseWords(n - 1) IN W \cup {w \cup {b} : w \in W, b \in Squares}

\* the operands: zero, every word of at most MaxSetBits set bits, and every
\* word whose set bits are one contiguous run (up to all 64 bits set)
ScanOperands == SparseWords(MaxSetBits) \cup {lo .. hi : lo \in Squares, hi \in Squares}

InitScan == BuildStart /\ FenIdle /\ CastleIdle /\ ParseIdle
            /\ scan_i \in ScanOperands /\ scan_fwd = NotCalled /\ scan_rev = NotCalled

call_bitscan_forward ==
    /\ scan_fwd = NotCalled
    /\ scan_fwd' = bitscan_forward(scan_i)
    /\ UNCHANGED <<scan_i, scan_rev, buildVars, fenVars,
                   castleVars, parseVars>>

call_bitscan_reverse ==
    /\ scan_rev = NotCalled
    /\ scan_rev' = bitscan_reverse(scan_i)
    /\ UNCHANGED <<scan_i, scan_fwd, buildVars, fenVars,
                   castleVars, parseVars>>

NextScan ==
    \/ call_bitscan_forward
    \/ call_bitscan_reverse

SpecScan == InitScan /\ [][NextScan]_vars

----------------------------------------------------------------------------
(* FEN piece placement: src/board/fen.rs.  A &str is a sequence of          *)
(* one-character strings.                                                   *)

\* enum Piece { Pawn, Knight, Bishop, Rook, Queen, King }
Pawn == 0
Knight == 1
Bishop == 2
Rook == 3
Queen == 4
King == 5
Pieces == {Pawn, Knight, Bishop, Rook, Queen, King}

\* char::is_alphabetic, char::is_uppercase, char::is_ascii_digit and
\* char::to_digit(10), on the ASCII characters
UpperChars == {"A", "B", "C", "D", "E", "F", "G", "H", "I", "J", "K", "L", "M",
               "N", "O", "P", "Q", "R", "S", "T", "U", "V", "W", "X", "Y", "Z"}
LowerChars == {"a", "b", "c", "d", "e", "f", "g", "h", "i", "j", "k", "l", "m",
               "n", "o", "p", "q", "r", "s", "t", "u", "v", "w", "x", "y", "z"}
DigitChars == <<"0", "1", "2", "3", "4", "5", "6", "7", "8", "9">>
is_alphabetic(c) == c \in UpperChars \cup LowerChars
is_uppercase(c) == c \in UpperChars
is_ascii_digit(c) == \E d \in 1 .. 10 : DigitChars[d] = c
to_digit(c) == (CHOOSE d \in 1 .. 10 : DigitChars[d] = c) - 1

\* str::split(sep): the pieces between the separators, empty pieces included
RECURSIVE SplitFrom(_, _, _, _)
SplitFrom(str, sep, k, cur) ==
    IF k > Len(str) THEN <<cur>>
    ELSE IF str[k] = sep THEN <<cur>> \o SplitFrom(str, sep, k + 1, <<>>)
    ELSE SplitFrom(str, sep, k + 1, Append(cur, str[k]))
split(str, sep) == SplitFrom(str, sep, 1, <<>>)

\* Iterator::rev and [&str]::join("")
rev(seq) == [k \in 1 .. Len(seq) |-> seq[Len(seq) + 1 - k]]
RECURSIVE join(_)
join(seqs) == IF seqs = <<>> THEN <<>> ELSE Head(seqs) \o join(Tail(seqs))

\* Result<[[u64; 6]; 2], FenError>, or the abort of an overflow check
FenOk(bitboards) == [tag |-> "Ok", bitboards |-> bitboards]
IncorrectRankCount(n) == [tag |-> "Err", err |-> "IncorrectRankCount", ranks |-> n]
UnrecognizedPiece(c) == [tag |-> "Err", err |-> "UnrecognizedPiece", piece |-> c]
UnrecognizedSquare(c) == [tag |-> "Err", err |-> "UnrecognizedSquare", square |-> c]
IncorrectSquareCount(n) == [tag |-> "Err", err |-> "IncorrectSquareCount", count |-> n]
Panic(msg) == [tag |-> "Panic", msg |-> msg]

\* match c { 'p' | 'P' => Piece::Pawn, ... , _ => unrecognised }
piece_of(c) ==
    CASE c \in {"p", "P"} -> Pawn
      [] c \in {"n", "N"} -> Knight
      [] c \in {"b", "B"} -> Bishop
      [] c \in {"r", "R"} -> Rook
      [] c \in {"q", "Q"} -> Queen
      [] c \in {"k", "K"} -> King
      [] OTHER -> -1

\* the loop `for c in ranks.join("").chars()` from character k on, with the
\* bitboards and the u8 counter i built so far, and the final match on i.
\* With overflow checks `1 << i` aborts for i >= 64 and `i += n` aborts past
\* 255; without them the shift amount wraps modulo 64 and the sum modulo 256.
RECURSIVE decode_squares(_, _, _, _, _)
decode_squares(chars, k, bitboards, i, checks) ==
    IF k > Len(chars)
    THEN IF i = 64 THEN FenOk(bitboards) ELSE IncorrectSquareCount(i)
    ELSE LET c == chars[k] IN
        IF is_alphabetic(c)
        THEN LET color == IF is_uppercase(c) THEN White ELSE Black
                 piece == piece_of(c)
             IN  IF piece = -1 THEN UnrecognizedPiece(c)
                 ELSE IF i >= 64 /\ checks THEN Panic("attempt to shift left with overflow")
                 ELSE IF i + 1 > 255 /\ checks THEN Panic("attempt to add with overflow")
                 ELSE decode_squares(chars, k + 1,
                          [bitboards EXCEPT ![color][piece] = @ \cup Bit(i % 64)],
                          (i + 1) % 256, checks)
        ELSE IF is_ascii_digit(c)
        THEN IF i + to_digit(c) > 255 /\ checks THEN Panic("attempt to add with overflow")
             ELSE decode_squares(chars, k + 1, bitboards, (i + to_digit(c)) % 256, checks)
        ELSE UnrecognizedSquare(c)

EmptyBitboards == [c \in Colors |-> [p \in Pieces |-> {}]]

\* parse_piece_placement after the ranks have been collected
decode_ranks(ranks, checks) ==
    IF Len(ranks) # 8 THEN IncorrectRankCount(Len(ranks))
    ELSE decode_squares(join(ranks), 1, EmptyBitboards, 0, checks)

parse_piece_placement_top_rank_first(piece_placement, checks) ==
    decode_ranks(split(piece_placement, "/"), checks)

parse_piece_placement(piece_placement, checks) ==
    decode_ranks(rev(split(piece_placement, "/")), checks)

----------------------------------------------------------------------------
(* Calls of the decoder on piece-placement fields *)

MaxEdits == 2

RECURSIVE JoinWith(_, _)
JoinWith(seqs, sep) ==
    IF Len(seqs) = 0 THEN <<>>
    ELSE IF Len(seqs) = 1 THEN seqs[1]
    ELSE seqs[1] \o <<sep>> \o JoinWith(Tail(seqs), sep)

\* FEN_START and the fields of the decoder's unit tests
FEN_START_placement ==
    JoinWith(<< <<"r","n","b","q","k","b","n","r">>, <<"p","p","p","p","p","p","p","p">>,
                <<"8">>, <<"8">>, <<"8">>, <<"8">>,
                <<"P","P","P","P","P","P","P","P">>, <<"R","N","B","Q","K","B","N","R">> >>, "/")
TestOpening ==
    JoinWith(<< <<"r","1","b","q","k","b","n","r">>, <<"p","p","p","p","1","p","p","p">>,
                <<"2","n","5">>, <<"4","p","3">>, <<"3","P","P","3">>, <<"5","N","2">>,
                <<"P","P","P","2","P","P","P">>, <<"R","N","B","Q","K","B","1","R">> >>, "/")
TestMiddlegame ==
    JoinWith(<< <<"2","k","2","r","1","r">>, <<"p","1","p","q","1","R","p","p">>,
                <<"1","p","n","p","4">>, <<"4","p","1","p","1">>, <<"2","N","1","P","3">>,
                <<"3","P","2","P","1">>, <<"P","P","P","K","3","P">>, <<"5","Q","2">> >>, "/")
TestEndgame ==
    JoinWith(<< <<"5","k","2">>, <<"8">>, <<"6","B","1">>, <<"3","K","2","B","1">>,
                <<"1","q","6">>, <<"8">>, <<"3","Q","4">>, <<"8">> >>, "/")
TestSevenRanks ==
    JoinWith(<< <<"r","n","b","q","k","b","n","r">>, <<"p","p","p","p","p","p","p","p">>,
                <<"8">>, <<"8">>, <<"8">>,
                <<"P","P","P","P","P","P","P","P">>, <<"R","N","B","Q","K","B","N","R">> >>, "/")
TestSixtyOneSquares ==
    JoinWith(<< <<"r","n","b","q","k","b","n","r">>, <<"p","p","p","p","p","p","p","p">>,
                <<"8">>, <<"3","2">>, <<"8">>, <<"8">>,
                <<"P","P","P","P","P","P","P","P">>, <<"R","N","B","Q","K","B","N","R">> >>, "/")
TestFields == {FEN_START_placement, TestOpening, TestMiddlegame, TestEndgame,
               TestSevenRanks, TestSixtyOneSquares}

\* ranks written into an otherwise empty board: two mixed ranks of 8 files
\* (all 12 piece letters between them), a rank of 7 files, ranks of 9 files,
\* an unrecognised letter, an unrecognised symbol, a rank of 264 files, and a
\* rank of 264 files with a pawn on its 57th file
RankPool == { <<"1","k","1","R","1","q","1","K">>,
              <<"P","n","B","b","N","p","r","Q">>,
              <<"7">>,
              <<"p","8">>,
              <<"8","p">>,
              <<"x","7">>,
              <<"+","7">>,
              [k \in 1 .. 29 |-> "9"] \o <<"3">>,
              [k \in 1 .. 7 |-> "8"] \o <<"p">> \o [k \in 1 .. 23 |-> "9"] }

EmptyRanks(n) == [k \in 1 .. n |-> <<"8">>]

RECURSIVE EditedBoards(_)
EditedBoards(n) ==
    IF n = 0 THEN {EmptyRanks(8)}
    ELSE LET B == EditedBoards(n - 1)
         IN  B \cup {[b EXCEPT ![k] = r] : b \in B, k \in 1 .. 8, r \in RankPool}

\* the fields: the test fields, empty boards of 0, 1, 7 and 9 ranks, and every
\* empty board of 8 ranks with at most MaxEdits ranks replaced from RankPool
PlacementInputs ==
    TestFields
    \cup {<<>>}
    \cup {JoinWith(EmptyRanks(n), "/") : n \in {1, 7, 9}}
    \cup {JoinWith(b, "/") : b \in EditedBoards(MaxEdits)}

InitFen == BuildStart /\ ScanIdle /\ CastleIdle /\ ParseIdle
           /\ placement \in PlacementInputs
           /\ overflow_checks \in BOOLEAN
           /\ parsed = NotCalled

call_parse_piece_placement ==
    /\ parsed = NotCalled
    /\ parsed' = parse_piece_placement(placement, overflow_checks)
    /\ UNCHANGED <<placement, overflow_checks, buildVars, scanVars,
                   castleVars, parseVars>>

NextFen == call_parse_piece_placement

SpecFen == InitFen /\ [][NextFen]_vars

----------------------------------------------------------------------------
(* The other FEN fields and parse_fen: src/board/fen.rs *)

InvalidFields(n) == [tag |-> "Err", err |-> "InvalidFields", fields |-> n]
UnrecognizedActiveColor(str) ==
    [tag |-> "Err", err |-> "UnrecognizedActiveColor", color |-> str]
UnrecognizedCastlingRights(str) ==
    [tag |-> "Err", err |-> "UnrecognizedCastlingRights", castling_rights |-> str]
InvalidMoveField(str) == [tag |-> "Err", err |-> "InvalidMoveField", moves |-> str]
Ok(v) == [tag |-> "Ok", val |-> v]

\* str::split_whitespace: the non-empty pieces between runs of whitespace
RECURSIVE SplitWhitespaceFrom(_, _, _)
SplitWhitespaceFrom(str, k, cur) ==
    IF k > Len(str) THEN (IF cur = <<>> THEN <<>> ELSE <<cur>>)
    ELSE IF str[k] = " "
         THEN (IF cur = <<>> THEN <<>> ELSE <<cur>>) \o SplitWhitespaceFrom(str, k + 1, <<>>)
         ELSE SplitWhitespaceFrom(str, k + 1, Append(cur, str[k]))
split_whitespace(str) == SplitWhitespaceFrom(str, 1, <<>>)

\* str::contains(pattern): pattern occurs as a contiguous substring
contains(str, pat) ==
    \E k \in 0 .. Len(str) - Len(pat) : SubSeq(str, k + 1, k + Len(pat)) = pat

parse_active_color(active_color) ==
    IF active_color = <<"w">> THEN Ok(White)
    ELSE IF active_color = <<"b">> THEN Ok(Black)
    ELSE UnrecognizedActiveColor(active_color)

\* one player's rights: contains(both) / contains(kingside) / contains(queenside)
castling_of(castling_rights, kingside, queenside) ==
    IF contains(castling_rights, <<kingside, queenside>>) THEN "Both"
    ELSE IF contains(castling_rights, <<kingside>>) THEN "Kingside"
    ELSE IF contains(castling_rights, <<queenside>>) THEN "Queenside"
    ELSE "None"

parse_castling_rights(castling_rights) ==
    IF ~ \A k \in 1 .. Len(castling_rights) :
             castling_rights[k] \in {"K", "Q", "k", "q", "-"}
    THEN UnrecognizedCastlingRights(castling_rights)
    ELSE IF castling_rights = <<"-">> THEN Ok(<<"None", "None">>)
    ELSE Ok(<<castling_of(castling_rights, "K", "Q"),
              castling_of(castling_rights, "k", "q")>>)

\* <u16 as FromStr>::from_str: an optional leading "+", then at least one
\* decimal digit, the value at most 65535
RECURSIVE ParseDigits(_, _, _)
ParseDigits(str, k, acc) ==
    IF k > Len(str) THEN acc
    ELSE IF ~ is_ascii_digit(str[k]) THEN -1
    ELSE IF acc * 10 + to_digit(str[k]) > 65535 THEN -1
    ELSE ParseDigits(str, k + 1, acc * 10 + to_digit(str[k]))
parse_u16(str) ==
    IF str = <<>> \/ str = <<"+">> \/ str = <<"-">> THEN -1
    ELSE IF Head(str) = "+" THEN ParseDigits(Tail(str), 1, 0)
    ELSE ParseDigits(str, 1, 0)

parse_move_count(move_count) ==
    IF parse_u16(move_count) >= 0 THEN Ok(parse_u16(move_count))
    ELSE InvalidMoveField(move_count)

\* Result::unwrap: an Err aborts with the error's Debug text; an abort inside
\* the callee is an abort of the caller
unwrap(result) ==
    IF result.tag = "Err"
    THEN [tag |-> "Panic", msg |-> "called Result::unwrap() on an Err value",
          error |-> result]
    ELSE result

parse_fen(str, checks) ==
    LET fields == split_whitespace(str) IN
    IF Len(fields) # 6 THEN InvalidFields(Len(fields))
    ELSE LET bitboards == unwrap(parse_piece_placement(fields[1], checks))
             active_color == unwrap(parse_active_color(fields[2]))
             castling_rights == unwrap(parse_castling_rights(fields[3]))
             halfmoves == unwrap(parse_move_count(fields[5]))
             fullmoves == unwrap(parse_move_count(fields[6]))
         IN  IF bitboards.tag = "Panic" THEN bitboards
             ELSE IF active_color.tag = "Panic" THEN active_color
             ELSE IF castling_rights.tag = "Panic" THEN castling_rights
             ELSE IF halfmoves.tag = "Panic" THEN halfmoves
             ELSE IF fullmoves.tag = "Panic" THEN fullmoves
             ELSE [tag |-> "Ok",
                   bitboards |-> bitboards.bitboards,
                   active_color |-> active_color.val,
                   castling_rights |-> castling_rights.val,
                   halfmoves |-> halfmoves.val,
                   fullmoves |-> fullmoves.val]

----------------------------------------------------------------------------
(* Calls of parse_fen on FEN strings *)

MaxFields == 7

TestUnrecognizedPiece ==
    JoinWith(<< <<"r","n","b","q","k","b","n","r">>, <<"p","p","p","x","p","p","p","p">>,
                <<"8">>, <<"8">>, <<"8">>, <<"8">>,
                <<"P","P","P","P","P","P","P","P">>, <<"R","N","B","Q","K","B","N","R">> >>, "/")
TestUnrecognizedSquare ==
    JoinWith(<< <<"r","n","b","q","k","b","n","r">>, <<"p","p","p","p","p","p","p","p">>,
                <<"8">>, <<"8">>, <<"8">>, <<"8">>,
                <<"P","+","P","P","P","P","P","P">>, <<"R","N","B","Q","K","B","N","R">> >>, "/")

\* piece-placement fields: the test fields, and fields that fail several of
\* the decoder's checks at once
PlacementChoices ==
    { FEN_START_placement, TestEndgame, TestSevenRanks, TestSixtyOneSquares,
      TestUnrecognizedPiece, TestUnrecognizedSquare,
      \* x on rank 7 and + on rank 2
      JoinWith([EmptyRanks(8) EXCEPT ![2] = <<"x","7">>, ![7] = <<"+","7">>], "/"),
      \* + on rank 8 and x on rank 1, 62 squares
      JoinWith([EmptyRanks(8) EXCEPT ![1] = <<"+","6">>, ![8] = <<"x","6">>], "/"),
      \* 7 ranks, an unrecognised letter, 55 squares
      JoinWith([EmptyRanks(7) EXCEPT ![3] = <<"x","6">>], "/"),
      \* 65 squares, the pawn behind h8
      JoinWith([EmptyRanks(8) EXCEPT ![1] = <<"8","p">>], "/"),
      \* 63 squares
      JoinWith([EmptyRanks(8) EXCEPT ![4] = <<"7">>], "/") }
ColorChoices == { <<"w">>, <<"b">>, <<"Y">> }
CastlingChoices == { <<"K","Q","k","q">>, <<"-">>, <<"K","j","k","q">> }
EnPassantChoices == { <<"-">>, <<"d","3">>, <<"?","?">> }
HalfmoveChoices == { <<"0">>, <<"9","9">>, <<"-","1">> }
FullmoveChoices == { <<"1">>, <<"+","3">>, <<"6","5","5","3","5">>,
                     <<"6","5","5","7","5">>, <<"x">> }

\* the first n of the start position's fields followed by "1" fields
StartFields(n) ==
    [k \in 1 .. n |->
        IF k <= 6 THEN << FEN_START_placement, <<"w">>, <<"K","Q","k","q">>,
                          <<"-">>, <<"0">>, <<"1">> >>[k]
        ELSE <<"1">>]

\* the strings: every combination of the six fields' choices, the start
\* position cut or extended to 0..MaxFields fields, and the start position
\* with extra whitespace around and between its fields
FenInputs ==
    {JoinWith(<<p, c, r, e, h, f>>, " ") :
        p \in PlacementChoices, c \in ColorChoices, r \in CastlingChoices,
        e \in EnPassantChoices, h \in HalfmoveChoices, f \in FullmoveChoices}
    \cup {JoinWith(StartFields(n), " ") : n \in 0 .. MaxFields}
    \cup {JoinWith([k \in 1 .. 13 |->
                        IF k % 2 = 1 THEN <<>> ELSE StartFields(6)[k \div 2]], " ")}

InitParse == BuildStart /\ ScanIdle /\ CastleIdle
             /\ placement = <<>> /\ parsed = NotCalled
             /\ overflow_checks \in BOOLEAN
             /\ fen \in FenInputs
             /\ fen_result = NotCalled

call_parse_fen ==
    /\ fen_result = NotCalled
    /\ fen_result' = parse_fen(fen, overflow_checks)
    /\ UNCHANGED <<fen, buildVars, scanVars, fenVars, castleVars>>

NextParse == call_parse_fen

SpecParse == InitParse /\ [][NextParse]_vars

----------------------------------------------------------------------------
(* Calls of parse_castling_rights on castling-rights tokens *)

MaxTokenLen == 4

\* the tokens: every non-empty string of at most MaxTokenLen characters over
\* K, Q, k, q, - and one unrecognised letter
TokenChars == {"K", "Q", "k", "q", "-", "j"}
TokenInputs == UNION {[1 .. n -> TokenChars] : n \in 1 .. MaxTokenLen}

InitCastle == BuildStart /\ ScanIdle /\ FenIdle /\ ParseIdle
              /\ rights_token \in TokenInputs
              /\ rights = NotCalled

call_parse_castling_rights ==
    /\ rights = NotCalled
    /\ rights' = parse_castling_rights(rights_token)
    /\ UNCHANGED <<rights_token, buildVars, scanVars, fenVars, parseVars>>

NextCastle == call_parse_castling_rights

SpecCastle == InitCastle /\ [][NextCastle]_vars

----------------------------------------------------------------------------
(* Which table entries the populate passes have written so far *)

PhaseNo ==
    CASE pc = "populate_king_moves" -> 0
      [] pc = "populate_knight_moves" -> 1
      [] pc = "populate_pawn_moves" -> 2
      [] pc = "populate_first_rank_moves" -> 3
      [] OTHER -> 4

KingWritten(s) == PhaseNo > 0 \/ s < square
KnightWritten(s) == PhaseNo > 1 \/ (PhaseNo = 1 /\ s < square)
PawnWritten(s) == PhaseNo > 2 \/ (PhaseNo = 2 /\ s < square)
FirstRankWritten(p) == PhaseNo > 3 \/ (PhaseNo = 3 /\ p < square)

----------------------------------------------------------------------------
(* Reference geometry of the board, independent of the bit tricks *)

\* ray walk on an 8-square line: q is reached from p iff no occupied square
\* lies strictly between p and q
RayWalk(p, o) ==
    {q \in 0 .. 7 :
        /\ q # p
        /\ \A k \in 0 .. 7 :
               ((q < k /\ k < p) \/ (p < k /\ k < q)) => k \notin Bits8(o)}

KingAdjacent(s) ==
    {t \in Squares :
        /\ t # s
        /\ Abs(FileOf(t) - FileOf(s)) <= 1
        /\ Abs(RankOf(t) - RankOf(s)) <= 1}

KnightJumps(s) ==
    {t \in Squares :
        {Abs(FileOf(t) - FileOf(s)), Abs(RankOf(t) - RankOf(s))} = {1, 2}}

Forward(color) == IF color = White THEN 1 ELSE -1
StartRank(color) == IF color = White THEN 1 ELSE 6
LastRank(color) == IF color = White THEN 7 ELSE 0

PawnPushes(s, color) ==
    {t \in Squares :
        /\ FileOf(t) = FileOf(s)
        /\ \/ RankOf(t) = RankOf(s) + Forward(color)
           \/ /\ RankOf(s) = StartRank(color)
              /\ RankOf(t) = RankOf(s) + 2 * Forward(color)}

PawnCaptures(s, color) ==
    {t \in Squares :
        /\ RankOf(t) = RankOf(s) + Forward(color)
        /\ Abs(FileOf(t) - FileOf(s)) = 1}

----------------------------------------------------------------------------
(* Claims about the tables *)

\* C1: every written FIRST_RANK_MOVES[p][o] is the ray walk from p under
\* occupancy o: on each side every square up to and including the nearest
\* blocker, nothing beyond it, never p itself; p = 3, o = 0b00100100 includes
\* bits 2 and 5 and no bit below 2 or above 5.
C1_FirstRankIsRayWalk ==
    \A p \in 0 .. 7 : FirstRankWritten(p) =>
        /\ \A o \in U8 : Bits8(FIRST_RANK_MOVES[p][o]) = RayWalk(p, o)
        /\ p = 3 => /\ {2, 5} \subseteq Bits8(FIRST_RANK_MOVES[3][36])
                    /\ Bits8(FIRST_RANK_MOVES[3][36]) \subseteq 2 .. 5

C1_Witness ==
    /\ FirstRankWritten(7)
    /\ FIRST_RANK_MOVES[3][36] = 52
    /\ FIRST_RANK_MOVES[0][0] = 254
    /\ FIRST_RANK_MOVES[7][255] = 64

\* C2: every written KING_MOVES[s] is exactly the set of on-board squares
\* adjacent to s, so it has 3, 5 or 8 squares, and KING_MOVES[a1] = {b1, a2, b2}.
C2_KingIsAdjacency ==
    \A s \in Squares : KingWritten(s) =>
        /\ KING_MOVES[s] = KingAdjacent(s)
        /\ Cardinality(KING_MOVES[s]) \in {3, 5, 8}
        /\ s = 0 => KING_MOVES[s] = {1, 8, 9}

\* C3: every written KNIGHT_MOVES[s] is exactly the set of on-board squares an
\* L-shaped jump away from s, so it has 2, 3, 4, 6 or 8 squares, and
\* KNIGHT_MOVES[d4] = {b3, b5, c2, c6, e2, e6, f3, f5}.
C3_KnightIsJumps ==
    \A s \in Squares : KnightWritten(s) =>
        /\ KNIGHT_MOVES[s] = KnightJumps(s)
        /\ Cardinality(KNIGHT_MOVES[s]) \in {2, 3, 4, 6, 8}
        /\ s = 27 => KNIGHT_MOVES[s] = {17, 33, 10, 42, 12, 44, 21, 37}

C3_Witness ==
    /\ KnightWritten(63)
    /\ KNIGHT_MOVES[27] = {17, 33, 10, 42, 12, 44, 21, 37}
    /\ KNIGHT_MOVES[0] = {10, 17}
    /\ KNIGHT_MOVES[63] = {46, 53}

\* C4: every written PAWN_QUIET_MOVES[color][s] holds the square one rank
\* forward on the same file when it is on the board, the square two ranks
\* forward iff s is on the color's starting rank, and nothing else; on the
\* color's last rank it is zero.
C4_PawnQuietIsPushes ==
    \A s \in Squares : PawnWritten(s) =>
        \A c \in Colors :
            /\ PAWN_QUIET_MOVES[c][s] = PawnPushes(s, c)
            /\ (s + 16 * Forward(c) \in PAWN_QUIET_MOVES[c][s])
                   <=> RankOf(s) = StartRank(c)
            /\ RankOf(s) = LastRank(c) => PAWN_QUIET_MOVES[c][s] = {}

C4_Witness ==
    /\ PawnWritten(63)
    /\ PAWN_QUIET_MOVES[White][8] = {16, 24}
    /\ PAWN_QUIET_MOVES[Black][48] = {40, 32}
    /\ PAWN_QUIET_MOVES[White][16] = {24}
    /\ PAWN_QUIET_MOVES[White][56] = {}
    /\ PAWN_QUIET_MOVES[Black][7] = {}

\* C5: every written PAWN_ATTACKING_MOVES[color][s] is exactly the set of
\* on-board squares one rank forward and one file to either side of s: none
\* westward from file a, none eastward from file h, zero on the last rank.
C5_PawnAttacksAreDiagonals ==
    \A s \in Squares : PawnWritten(s) =>
        \A c \in Colors :
            /\ PAWN_ATTACKING_MOVES[c][s] = PawnCaptures(s, c)
            /\ FileOf(s) = FileA =>
                   PAWN_ATTACKING_MOVES[c][s] \cap FILE_MASKS[FileH] = {}
            /\ FileOf(s) = FileH =>
                   PAWN_ATTACKING_MOVES[c][s] \cap FILE_MASKS[FileA] = {}
            /\ RankOf(s) = LastRank(c) => PAWN_ATTACKING_MOVES[c][s] = {}

C5_Witness ==
    /\ PawnWritten(63)
    /\ PAWN_ATTACKING_MOVES[White][8] = {17}
    /\ PAWN_ATTACKING_MOVES[White][15] = {22}
    /\ PAWN_ATTACKING_MOVES[Black][55] = {46}
    /\ PAWN_ATTACKING_MOVES[Black][27] = {18, 20}
    /\ PAWN_ATTACKING_MOVES[White][60] = {}

----------------------------------------------------------------------------
(* Claims about bitscan *)

LowestBit(x) == CHOOSE i \in x : \A j \in x : i <= j
HighestBit(x) == CHOOSE i \in x : \A j \in x : j <= i

\* C6: bitscan_forward(0) and bitscan_reverse(0) each return the error value
\* carrying the operand 0, and for a non-zero operand neither returns an error.
C6_BitscanErrorIffZero ==
    /\ scan_fwd # NotCalled =>
           IF scan_i = {} THEN scan_fwd = [tag |-> "Err", err |-> "InvalidInteger", integer |-> {}]
           ELSE scan_fwd.tag = "Ok"
    /\ scan_rev # NotCalled =>
           IF scan_i = {} THEN scan_rev = [tag |-> "Err", err |-> "InvalidInteger", integer |-> {}]
           ELSE scan_rev.tag = "Ok"

C6_Witness ==
    /\ scan_i = {}
    /\ scan_fwd.tag = "Err"
    /\ scan_rev.tag = "Err"

\* C7: for a non-zero operand bitscan_forward returns the index of the lowest
\* set bit and bitscan_reverse the index of the highest set bit, both in 0..63,
\* so forward <= reverse with equality exactly for a single set bit;
\* bitscan_forward(0x8000000000000000) = 63.
C7_BitscanFindsEndBits ==
    scan_i # {} =>
        /\ scan_fwd # NotCalled =>
               /\ scan_fwd = [tag |-> "Ok", val |-> LowestBit(scan_i)]
               /\ scan_fwd.val \in 0 .. 63
               /\ scan_i = {63} => scan_fwd.val = 63
        /\ scan_rev # NotCalled =>
               /\ scan_rev = [tag |-> "Ok", val |-> HighestBit(scan_i)]
               /\ scan_rev.val \in 0 .. 63
        /\ (scan_fwd # NotCalled /\ scan_rev # NotCalled) =>
               /\ scan_fwd.val <= scan_rev.val
               /\ (scan_fwd.val = scan_rev.val) <=> (Cardinality(scan_i) = 1)

C7_Witness ==
    /\ scan_i = {63}
    /\ scan_fwd = [tag |-> "Ok", val |-> 63]
    /\ scan_rev = [tag |-> "Ok", val |-> 63]

----------------------------------------------------------------------------
(* Claims about the piece-placement decoder *)

PieceLetter == [c \in Colors |->
                   IF c = White THEN [p \in Pieces |-> <<"P", "N", "B", "R", "Q", "K">>[p + 1]]
                   ELSE [p \in Pieces |-> <<"p", "n", "b", "r", "q", "k">>[p + 1]]]
PieceLetters == {PieceLetter[c][p] : c \in Colors, p \in Pieces}
CountDigits == {"1", "2", "3", "4", "5", "6", "7", "8"}
DigitValue(c) == CHOOSE d \in 0 .. 9 : DigitChars[d + 1] = c

\* Reading of a field as FEN defines it: start on a8, a letter puts its piece
\* on the current square and moves one file east, a digit d moves d files
\* east, and "/" (allowed only after exactly 8 files) moves to file a of the
\* rank below.  wf tells whether the field is well-formed (8 ranks of exactly
\* 8 files, letters from pnbrqkPNBRQK, digits 1..8); placed is the set of
\* <<square, letter>> pairs.
RECURSIVE ReadBoard(_, _, _, _, _)
ReadBoard(f, k, rank, file, placed) ==
    IF k > Len(f) THEN [wf |-> rank = 0 /\ file = 8, placed |-> placed]
    ELSE LET c == f[k] IN
        IF c = "/"
        THEN IF file = 8 /\ rank > 0 THEN ReadBoard(f, k + 1, rank - 1, 0, placed)
             ELSE [wf |-> FALSE, placed |-> {}]
        ELSE IF c \in CountDigits
        THEN IF file + DigitValue(c) <= 8
             THEN ReadBoard(f, k + 1, rank, file + DigitValue(c), placed)
             ELSE [wf |-> FALSE, placed |-> {}]
        ELSE IF c \in PieceLetters
        THEN IF file < 8
             THEN ReadBoard(f, k + 1, rank, file + 1, placed \cup {<<8 * rank + file, c>>})
             ELSE [wf |-> FALSE, placed |-> {}]
        ELSE [wf |-> FALSE, placed |-> {}]
Board(f) == ReadBoard(f, 1, 7, 0, {})

\* the number of files a rank (or a whole field) enumerates: digits as counts,
\* one per other character, "/" not counted
RECURSIVE SquareCount(_)
SquareCount(str) ==
    IF str = <<>> THEN 0
    ELSE (IF Head(str) = "/" THEN 0
          ELSE IF is_ascii_digit(Head(str)) THEN DigitValue(Head(str))
          ELSE 1) + SquareCount(Tail(str))
RanksOf(f) == split(f, "/")
OnlyRecognised(f) ==
    \A k \in 1 .. Len(f) : f[k] = "/" \/ is_ascii_digit(f[k]) \/ f[k] \in PieceLetters

Occupied(bitboards) == UNION {bitboards[c][p] : c \in Colors, p \in Pieces}

\* C8: for a well-formed field the decoder returns bitboards in which bit i
\* of bitboards[color][kind] is set iff square i (a1 = 0, h8 = 63) holds that
\* piece; the start position occupies ranks 1, 2, 7, 8 with 8 pawns, 2
\* knights, 2 bishops, 2 rooks, 1 queen and 1 king per color.
C8_DecodesWellFormedBoards ==
    parsed # NotCalled =>
        LET board == Board(placement) IN
        board.wf =>
        /\ parsed.tag = "Ok"
        /\ \A c \in Colors, p \in Pieces :
               \A sq \in Squares :
                   sq \in parsed.bitboards[c][p] <=> <<sq, PieceLetter[c][p]>> \in board.placed
        /\ placement = FEN_START_placement =>
               /\ Occupied(parsed.bitboards) = (0 .. 15) \cup (48 .. 63)
               /\ \A c \in Colors :
                      [p \in Pieces |-> Cardinality(parsed.bitboards[c][p])]
                          = (Pawn :> 8 @@ Knight :> 2 @@ Bishop :> 2 @@ Rook :> 2
                             @@ Queen :> 1 @@ King :> 1)

C8_Witness ==
    /\ placement = FEN_START_placement
    /\ parsed.tag = "Ok"
    /\ parsed.bitboards[White][King] = {4}
    /\ parsed.bitboards[Black][King] = {60}
    /\ parsed.bitboards[White][Pawn] = 8 .. 15

\* C9: a field of 8 ranks in which some rank does not sum to exactly 8 files
\* is not accepted, even when the ranks sum to 64 in total.
C9_EveryRankSumsToEight ==
    (/\ parsed # NotCalled
     /\ Len(RanksOf(placement)) = 8
     /\ \E k \in 1 .. 8 : SquareCount(RanksOf(placement)[k]) # 8)
        => parsed.tag # "Ok"

\* C10: a field of 8 ranks and only recognised characters whose total number
\* of squares n is not 64 fails with IncorrectSquareCount carrying exactly n,
\* below and above 64 alike, and returns no bitboards.
C10_SquareCountErrorCarriesTotal ==
    (/\ parsed # NotCalled
     /\ Len(RanksOf(placement)) = 8
     /\ OnlyRecognised(placement)
     /\ SquareCount(placement) # 64)
        => parsed = [tag |-> "Err", err |-> "IncorrectSquareCount",
                     count |-> SquareCount(placement)]

----------------------------------------------------------------------------
(* Claims about parse_fen *)

FieldsOf(str) == split_whitespace(str)

RECURSIVE DecimalValue(_)
DecimalValue(digits) ==
    IF digits = <<>> THEN 0
    ELSE 10 * DecimalValue(SubSeq(digits, 1, Len(digits) - 1))
         + DigitValue(digits[Len(digits)])

\* what makes a field invalid, by the kinds of error FenError names
WrongRankCount(p) == Len(RanksOf(p)) # 8
UnrecognisedCharacter(p) == ~ OnlyRecognised(p)
WrongSquareCount(p) == SquareCount(p) # 64
BadPlacement(p) == WrongRankCount(p) \/ UnrecognisedCharacter(p) \/ WrongSquareCount(p)
BadActiveColor(c) == c \notin {<<"w">>, <<"b">>}
BadCastlingRights(r) == \E k \in 1 .. Len(r) : r[k] \notin {"K", "Q", "k", "q", "-"}
BadMoveCount(m) ==
    LET digits == IF m # <<>> /\ Head(m) = "+" THEN Tail(m) ELSE m
    IN  \/ digits = <<>>
        \/ \E k \in 1 .. Len(digits) : ~ is_ascii_digit(digits[k])
        \/ DecimalValue(digits) > 65535

InvalidFen(str) ==
    \/ Len(FieldsOf(str)) # 6
    \/ /\ Len(FieldsOf(str)) = 6
       /\ \/ BadPlacement(FieldsOf(str)[1])
          \/ BadActiveColor(FieldsOf(str)[2])
          \/ BadCastlingRights(FieldsOf(str)[3])
          \/ BadMoveCount(FieldsOf(str)[5])
          \/ BadMoveCount(FieldsOf(str)[6])

\* C11: for every invalid FEN string parse_fen returns an Err(FenError) value
\* to its caller: it neither aborts nor returns Ok.
C11_InvalidFenReturnsErr ==
    (fen_result # NotCalled /\ InvalidFen(fen)) => fen_result.tag = "Err"

----------------------------------------------------------------------------
(* Claims about the returned bitboards *)

ColorPieces == Colors \X Pieces
RECURSIVE SumOver(_, _)
SumOver(S, bitboards) ==
    IF S = {} THEN 0
    ELSE LET cp == CHOOSE x \in S : TRUE
         IN  Cardinality(bitboards[cp[1]][cp[2]]) + SumOver(S \ {cp}, bitboards)
LetterCount(str) == Cardinality({k \in 1 .. Len(str) : str[k] \in PieceLetters})

\* C12: whenever parse_piece_placement returns Ok, no square bit is set in two
\* of the 12 bitboards, and the number of set bits over all 12 equals the
\* number of piece letters in the field.
C12_BitboardsDisjoint ==
    parsed.tag = "Ok" =>
        /\ \A a \in ColorPieces, b \in ColorPieces :
               a # b => parsed.bitboards[a[1]][a[2]] \cap parsed.bitboards[b[1]][b[2]] = {}
        /\ SumOver(ColorPieces, parsed.bitboards) = LetterCount(placement)

----------------------------------------------------------------------------
(* Claims about the build script's run *)

TablesComplete ==
    /\ KING_MOVES = [s \in Squares |-> compute_king_moves(s)]
    /\ KNIGHT_MOVES = [s \in Squares |-> compute_knight_moves(s)]
    /\ PAWN_QUIET_MOVES = [c \in Colors |-> [s \in Squares |-> compute_pawn_quiet_moves(s, c)]]
    /\ PAWN_ATTACKING_MOVES =
           [c \in Colors |-> [s \in Squares |-> compute_pawn_attacking_moves(s, c)]]
    /\ FIRST_RANK_MOVES = [p \in 0 .. 7 |-> [o \in U8 |-> compute_first_rank_moves(p, o)]]

Tables == <<KING_MOVES, KNIGHT_MOVES, PAWN_QUIET_MOVES, PAWN_ATTACKING_MOVES,
            FIRST_RANK_MOVES>>

\* C13: when the first write_* step is about to start, all four populate
\* passes have written every entry of their tables, and from then on no entry
\* of any table changes again.
TablesFrozenOnceWriting ==
    pc \in {"write_king_moves", "panicked"} => UNCHANGED Tables

C13_TablesCompleteBeforeWrite ==
    [](pc = "write_king_moves" => TablesComplete) /\ [][TablesFrozenOnceWriting]_vars

C13_Witness ==
    /\ pc = "write_king_moves"
    /\ KING_MOVES[63] = compute_king_moves(63)
    /\ KNIGHT_MOVES[63] = {46, 53}
    /\ PAWN_ATTACKING_MOVES[Black][63] = {54}
    /\ FIRST_RANK_MOVES[7][0] = 127

\* C14: once the output file has been created, main does not abort: it emits
\* the four tables and terminates normally.
WriteStepDoesNotAbort ==
    pc = "write_king_moves" => pc' # "panicked"

C14_MainCompletes == [][WriteStepDoesNotAbort]_vars

\* C15: while populate_first_rank_moves runs, no call of
\* compute_first_rank_moves aborts: bitscan is only called on a non-zero
\* blocker set, every x - 1 has x >= 1, every 1 << n has n <= 7, and every
\* intermediate value and the result fit in 8 bits.
OpsSafe(ops) ==
    /\ \A x \in ops.scans : x # 0
    /\ \A x \in ops.subs : x >= 1
    /\ \A n \in ops.shifts : n <= 7
    /\ \A v \in ops.values : v \in 0 .. 255

FirstRankOperandsSafe ==
    pc = "populate_first_rank_moves" => \A o \in U8 : OpsSafe(first_rank_ops(square, o))

FirstRankStepDoesNotAbort ==
    pc = "populate_first_rank_moves" => pc' # "panicked"

C15_FirstRankPassNeverAborts ==
    []FirstRankOperandsSafe /\ [][FirstRankStepDoesNotAbort]_vars

C15_Witness ==
    /\ pc = "create_file"
    /\ overflow_checks
    /\ FIRST_RANK_MOVES[7][255] = 64
    /\ first_rank_ops(7, 255).scans = {127}
    /\ first_rank_ops(7, 255).shifts = {7, 6}

----------------------------------------------------------------------------
(* Claims about castling rights and the order of parse_fen's checks *)

Has(str, c) == \E k \in 1 .. Len(str) : str[k] = c
RightsOf(str, kingside, queenside) ==
    CASE Has(str, kingside) /\ Has(str, queenside) -> "Both"
      [] Has(str, kingside) /\ ~ Has(str, queenside) -> "Kingside"
      [] ~ Has(str, kingside) /\ Has(str, queenside) -> "Queenside"
      [] OTHER -> "None"

\* C16: for a token made only of K, Q, k, q and - the returned rights of each
\* color are Both / Kingside / Queenside / None according to which of its two
\* letters the token contains, whatever their order; a token with any other
\* character is rejected with UnrecognizedCastlingRights carrying the token.
C16_CastlingRightsByLetters ==
    rights # NotCalled =>
        IF BadCastlingRights(rights_token)
        THEN rights = [tag |-> "Err", err |-> "UnrecognizedCastlingRights",
                       castling_rights |-> rights_token]
        ELSE rights = [tag |-> "Ok",
                       val |-> <<RightsOf(rights_token, "K", "Q"),
                                 RightsOf(rights_token, "k", "q")>>]

\* the first failing check in the order: field count; rank count, characters
\* from rank 1 to rank 8, square count; active color; castling rights;
\* halfmove count; fullmove count.  The en-passant field is never examined.
FirstBadCharacter(p) ==
    LET chars == join(rev(RanksOf(p)))
        k == CHOOSE j \in 1 .. Len(chars) :
                 /\ ~ (is_ascii_digit(chars[j]) \/ chars[j] \in PieceLetters)
                 /\ \A i \in 1 .. j - 1 : is_ascii_digit(chars[i]) \/ chars[i] \in PieceLetters
    IN  IF chars[k] \in UpperChars \cup LowerChars
        THEN [tag |-> "Err", err |-> "UnrecognizedPiece", piece |-> chars[k]]
        ELSE [tag |-> "Err", err |-> "UnrecognizedSquare", square |-> chars[k]]

FirstFailure(str) ==
    LET f == FieldsOf(str) IN
    IF Len(f) # 6 THEN [tag |-> "Err", err |-> "InvalidFields", fields |-> Len(f)]
    ELSE IF WrongRankCount(f[1])
    THEN [tag |-> "Err", err |-> "IncorrectRankCount", ranks |-> Len(RanksOf(f[1]))]
    ELSE IF UnrecognisedCharacter(f[1]) THEN FirstBadCharacter(f[1])
    ELSE IF WrongSquareCount(f[1])
    THEN [tag |-> "Err", err |-> "IncorrectSquareCount", count |-> SquareCount(f[1])]
    ELSE IF BadActiveColor(f[2])
    THEN [tag |-> "Err", err |-> "UnrecognizedActiveColor", color |-> f[2]]
    ELSE IF BadCastlingRights(f[3])
    THEN [tag |-> "Err", err |-> "UnrecognizedCastlingRights", castling_rights |-> f[3]]
    ELSE IF BadMoveCount(f[5])
    THEN [tag |-> "Err", err |-> "InvalidMoveField", moves |-> f[5]]
    ELSE [tag |-> "Err", err |-> "InvalidMoveField", moves |-> f[6]]

\* the FenError a result reports: the one returned, or the one the abort of
\* an unwrap carries
Reported(result) ==
    IF result.tag = "Panic" /\ "error" \in DOMAIN result THEN result.error ELSE result

\* C17: parse_fen reports the first failing check of the fixed order and only
\* that one, and a string whose only oddity is its en-passant field is accepted.
C17_FirstFailingCheckReported ==
    fen_result # NotCalled =>
        IF InvalidFen(fen) THEN Reported(fen_result) = FirstFailure(fen)
        ELSE fen_result.tag = "Ok"

\* the same order, on the strings whose piece placement does not run into an
\* arithmetic overflow
OrderHoldsWithoutOverflow ==
    (fen_result # NotCalled /\ ~ (fen_result.tag = "Panic" /\ "error" \notin DOMAIN fen_result)) =>
        IF InvalidFen(fen) THEN Reported(fen_result) = FirstFailure(fen)
        ELSE fen_result.tag = "Ok"

====
